---- MODULE Spec2Model ----
(***************************************************************************)
(* State-machine model of the blog backend in src/src/index.ts: the Worker *)
(* entry point (default.fetch), the lazily created Prisma handle, the five *)
(* /api/posts route handlers and the posts table of prisma/schema.prisma.  *)
(*                                                                         *)
(* Every storage call of a handler is one atomic step of the database; the *)
(* synchronous code between two awaits is folded into the step before it.  *)
(* Requests run in the slots of Procs and interleave freely between their  *)
(* storage calls.  The storage is assumed reachable: the failures modelled *)
(* are the ones the database raises as a function of its own state (the    *)
(* foreign key on author_id, update/delete of a row that is gone).         *)
(* The binding DATABASE_URL_ACCELERATE is process configuration: it is     *)
(* chosen once and is the same for every request of the process.           *)
(*                                                                         *)
(* Two workloads are explored.  In the serial workload one request at a    *)
(* time runs, with every combination of present, empty and absent body     *)
(* fields.  In the overlapping workload two requests run at once and       *)
(* interleave at every storage call; their bodies are the well-formed      *)
(* ones, which is where the interleavings matter.                          *)
(***************************************************************************)
EXTENDS Integers, Sequences, FiniteSets, TLC

\* ---------------------------------------------------------------- bounds
MaxPosts == 2          \* rows ever created (ids 1..MaxPosts)
MaxTime == 1          \* largest value of the database clock

\* ---------------------------------------------------------------- domains
Procs == {"r1", "r2"}                       \* overlapping requests
Users == {"u1", "u2"}                       \* rows of auth.users
AuthorIds == {"", "u1", "u2", "u9"}         \* "" is falsy, u9 has no User row
CallerIds == {"", "u1", "u2"}               \* currentUserId values
Texts == {"", "a"}                          \* title, content of a create
NewTexts == {""}                            \* title, content of an update
PostIds == 1 .. MaxPosts                    \* ids uuid() can generate
IdParams == 0 .. MaxPosts                   \* 0 is an id never generated

PrismaScheme == <<"p", "r", "i", "s", "m", "a", ":", "/", "/">>
Undefined == 0                              \* value of `prisma` before init

\* values env.DATABASE_URL_ACCELERATE can have
EnvValues ==
    { [type |-> "undefined", val |-> <<>>],
      [type |-> "number",    val |-> <<>>],
      [type |-> "string",    val |-> <<>>],
      [type |-> "string",    val |-> <<"p", "r", "i", "s", "m", "a", ":", "/">>],
      [type |-> "string",    val |-> <<"p", "g", ":", "/", "/", "p", "r", "i", "s", "m", "a", ":", "/", "/">>],
      [type |-> "string",    val |-> PrismaScheme \o <<"h">>] }

\* a JSON body: each field is present or not
Opt(name, vals) == {<<>>} \cup {name :> v : v \in vals}
Has(b, f) == f \in DOMAIN b
\* variant: an empty string counts as given
TruthyIfPresent(b, f) == Has(b, f)

\* JS truthiness of a destructured string field
Truthy(b, f) == Has(b, f) /\ b[f] # ""

PostBodies ==
    { t @@ c @@ a @@ pb :
        t \in Opt("title", Texts), c \in Opt("content", Texts),
        a \in Opt("authorId", AuthorIds), pb \in Opt("published", BOOLEAN) }
PutBodies ==
    { t @@ c @@ pb @@ u :
        t \in Opt("title", NewTexts), c \in Opt("content", NewTexts),
        pb \in Opt("published", BOOLEAN), u \in Opt("currentUserId", CallerIds) }
DeleteBodies == Opt("currentUserId", CallerIds)

\* the bodies of the overlapping workload
PostBodiesOverlap ==
    { [title |-> "a", content |-> "a", authorId |-> a] : a \in Users }
PutBodiesOverlap ==
    { [title |-> "", currentUserId |-> u] : u \in Users }
DeleteBodiesOverlap ==
    { [currentUserId |-> u] : u \in Users }

\* ---------------------------------------------------------------- responses
\* status, the text or the JSON `error` string, the JSON rows returned
NoResponse == [status |-> 0, error |-> "", rows |-> <<>>]
Response(st, er, rs) == [status |-> st, error |-> er, rows |-> rs]

VARIABLES
    overlap,    \* workload: TRUE when two requests may run at once
    env,        \* env.DATABASE_URL_ACCELERATE of the process
    prisma,     \* the module-level handle: Undefined or the handle's number
    inits,      \* calls of initializePrismaClient so far
    posts,      \* table public.posts: id -> row, DOMAIN posts = stored ids
    nextId,     \* ids generated so far + 1
    now,        \* database clock
    pc,         \* per request: where its handler stands
    route,      \* per request: the handler it was dispatched to
    rid,        \* per request: path parameter :id
    body,       \* per request: parsed JSON body
    ran,        \* per request: app.fetch was entered
    calls,      \* per request: storage calls issued
    resp,       \* per request: the response returned
    deleted204  \* id -> number of 204 responses sent for it

vars == <<overlap, env, prisma, inits, posts, nextId, now, pc, route, rid, body, ran,
          calls, resp, deleted204>>
reqVars == <<pc, route, rid, body, ran, calls, resp>>
dbVars == <<posts, nextId, now, deleted204>>

\* ---------------------------------------------------------------- helpers
StartsWith(s, pre) == Len(s) >= Len(pre) /\ SubSeq(s, 1, Len(pre)) = pre

\* variant: the scheme prefix is not looked at
ValidUrlAnyScheme(e) == e.type = "string" /\ e.val # <<>>

\* index.ts:208, negated: a non-empty string that starts with prisma://
ValidUrl(e) ==
    e.type = "string" /\ e.val # <<>> /\ StartsWith(e.val, PrismaScheme)

\* variant: the handle is built for every request
NeedsInitAlways == TRUE

\* index.ts:206  if (!prisma)
NeedsInit == prisma = Undefined

\* index.ts:15-23: every call builds a new client
initializePrismaClient == inits + 1

\* variant: `published` is taken from the body when it carries one
CreateDataFromBody(b) ==
    [id |-> nextId, createdAt |-> now, title |-> b["title"],
     content |-> b["content"], authorId |-> b["authorId"],
     published |-> IF Has(b, "published") THEN b["published"] ELSE TRUE]

\* index.ts:108-113, with the column defaults of schema.prisma:17-18
CreateData(b) ==
    [id |-> nextId, createdAt |-> now, title |-> b["title"],
     content |-> b["content"], authorId |-> b["authorId"], published |-> TRUE]

\* schema.prisma:22: author_id must reference a row of auth.users
ForeignKeyOk(b) == b["authorId"] \in Users

\* variant: the ownership comparison always succeeds
IsAuthorAlways(row, b) == TRUE

\* variant: any caller that names itself passes
IsAuthorIfPresent(row, b) == Has(b, "currentUserId")

\* index.ts:149 / 187, negated
IsAuthor(row, b) == row.authorId = b["currentUserId"]

\* variant: the update also restamps the row
UpdateDataRestamp(row, b) ==
    [row EXCEPT !.title = IF Has(b, "title") THEN b["title"] ELSE @,
                !.content = IF Has(b, "content") THEN b["content"] ELSE @,
                !.published = IF Has(b, "published") THEN b["published"] ELSE @,
                !.createdAt = now]

\* index.ts:155-159: a field that is undefined is left as it is by update()
UpdateData(row, b) ==
    [row EXCEPT !.title = IF Has(b, "title") THEN b["title"] ELSE @,
                !.content = IF Has(b, "content") THEN b["content"] ELSE @,
                !.published = IF Has(b, "published") THEN b["published"] ELSE @]

\* variant: deleting a row that is gone succeeds (deleteMany)
DeleteFindsAlways(i) == TRUE

\* index.ts:191: delete() throws when no row has the id
DeleteFinds(i) == i \in DOMAIN posts

\* variant: ascending order
OrderBeforeAsc(a, b) == a.createdAt <= b.createdAt

\* index.ts:62-64  orderBy createdAt desc
OrderBefore(a, b) == a.createdAt >= b.createdAt

RECURSIVE InsertRow(_, _)
InsertRow(row, sorted) ==
    IF sorted = <<>> THEN <<row>>
    ELSE IF OrderBefore(Head(sorted), row)
         THEN <<Head(sorted)>> \o InsertRow(row, Tail(sorted))
         ELSE <<row>> \o sorted

RECURSIVE SortRows(_)
SortRows(rows) ==
    IF rows = <<>> THEN <<>>
    ELSE InsertRow(rows[Len(rows)], SortRows(SubSeq(rows, 1, Len(rows) - 1)))

\* the orders in which the table scan can deliver the stored rows
Scans ==
    { s \in [1 .. Cardinality(DOMAIN posts) -> DOMAIN posts] :
        \A i, j \in DOMAIN s : i # j => s[i] # s[j] }

\* ---------------------------------------------------------------- requests
Finish(p, r) ==
    /\ pc' = [pc EXCEPT ![p] = "done"]
    /\ resp' = [resp EXCEPT ![p] = r]

Goto(p, l) ==
    /\ pc' = [pc EXCEPT ![p] = l]
    /\ UNCHANGED resp

StorageCall(p) == calls' = [calls EXCEPT ![p] = @ + 1]

\* the requests the workload lets run at once
Slots == IF overlap THEN Procs ELSE {"r1"}

\* index.ts:206-215: the part of fetch that passes the request to app.fetch
EnterApp(p, r, i, b) ==
    /\ pc[p] = "idle"
    /\ p \in Slots
    /\ ~(NeedsInit /\ ~ValidUrl(env))
    /\ prisma' = IF NeedsInit THEN initializePrismaClient ELSE prisma
    /\ inits' = IF NeedsInit THEN inits + 1 ELSE inits
    /\ route' = [route EXCEPT ![p] = r]
    /\ rid' = [rid EXCEPT ![p] = i]
    /\ body' = [body EXCEPT ![p] = b]
    /\ ran' = [ran EXCEPT ![p] = TRUE]
    /\ UNCHANGED <<overlap, env, calls, dbVars>>

Routes == {"GET /", "GET /api/posts", "GET /api/posts/:id", "POST /api/posts",
           "PUT /api/posts/:id", "DELETE /api/posts/:id"}

\* index.ts:208-212: misconfigured, answered by fetch itself
FetchMisconfigured(p) ==
    /\ pc[p] = "idle"
    /\ p \in Slots
    /\ NeedsInit /\ ~ValidUrl(env)
    /\ \E r \in Routes : route' = [route EXCEPT ![p] = r]
    /\ Finish(p, Response(500, "Internal Server Error: Database URL misconfiguration", <<>>))
    /\ UNCHANGED <<overlap, env, prisma, inits, rid, body, ran, calls, dbVars>>

\* index.ts:46
FetchHealth(p) ==
    /\ EnterApp(p, "GET /", 0, <<>>)
    /\ Finish(p, Response(200, "Hono Blog Backend (on Cloudflare Workers) is running!", <<>>))

\* index.ts:51-53
FetchList(p) ==
    /\ EnterApp(p, "GET /api/posts", 0, <<>>)
    /\ Goto(p, "list_read")

\* index.ts:53-66
ListRead(p) ==
    /\ pc[p] = "list_read"
    /\ StorageCall(p)
    /\ \E scan \in Scans :
         Finish(p, Response(200, "", SortRows([k \in DOMAIN scan |-> posts[scan[k]]])))
    /\ UNCHANGED <<overlap, env, prisma, inits, route, rid, body, ran, dbVars>>

\* index.ts:74-77
FetchGet(p) ==
    \E i \in IdParams :
        /\ EnterApp(p, "GET /api/posts/:id", i, <<>>)
        /\ Goto(p, "get_read")

\* index.ts:77-91
GetRead(p) ==
    /\ pc[p] = "get_read"
    /\ StorageCall(p)
    /\ IF rid[p] \notin DOMAIN posts
       THEN Finish(p, Response(404, "Post not found", <<>>))
       ELSE Finish(p, Response(200, "", <<posts[rid[p]]>>))
    /\ UNCHANGED <<overlap, env, prisma, inits, route, rid, body, ran, dbVars>>

\* creates under way that will take an id; keeps nextId within MaxPosts
PendingCreates ==
    Cardinality({q \in Procs : pc[q] = "post_create" /\ ForeignKeyOk(body[q])})

\* index.ts:99-104
FetchPost(p) ==
    \E b \in (IF overlap THEN PostBodiesOverlap ELSE PostBodies) :
        /\ EnterApp(p, "POST /api/posts", 0, b)
        /\ IF ~Truthy(b, "title") \/ ~Truthy(b, "content") \/ ~Truthy(b, "authorId")
           THEN Finish(p, Response(400, "Title, content, and author ID are required", <<>>))
           ELSE /\ ForeignKeyOk(b) => nextId + PendingCreates <= MaxPosts
                /\ Goto(p, "post_create")

\* index.ts:106-127
PostCreate(p) ==
    /\ pc[p] = "post_create"
    /\ StorageCall(p)
    /\ IF ~ForeignKeyOk(body[p])
       THEN /\ Finish(p, Response(500, "Failed to create post", <<>>))
            /\ UNCHANGED dbVars
       ELSE /\ posts' = (nextId :> CreateData(body[p])) @@ posts
            /\ nextId' = nextId + 1
            /\ Finish(p, Response(201, "", <<CreateData(body[p])>>))
            /\ UNCHANGED <<now, deleted204>>
    /\ UNCHANGED <<overlap, env, prisma, inits, route, rid, body, ran>>

\* index.ts:131-137
FetchPut(p) ==
    \E i \in IdParams, b \in (IF overlap THEN PutBodiesOverlap ELSE PutBodies) :
        /\ EnterApp(p, "PUT /api/posts/:id", i, b)
        /\ IF ~Truthy(b, "currentUserId")
           THEN Finish(p, Response(401, "Authentication required", <<>>))
           ELSE Goto(p, "put_read")

\* index.ts:140-151
PutRead(p) ==
    /\ pc[p] = "put_read"
    /\ StorageCall(p)
    /\ IF rid[p] \notin DOMAIN posts
       THEN Finish(p, Response(404, "Post not found", <<>>))
       ELSE IF ~IsAuthor(posts[rid[p]], body[p])
            THEN Finish(p, Response(403, "Unauthorized: You are not the author of this post", <<>>))
            ELSE Goto(p, "put_write")
    /\ UNCHANGED <<overlap, env, prisma, inits, route, rid, body, ran, dbVars>>

\* index.ts:153-165: update() throws when no row has the id
PutWrite(p) ==
    /\ pc[p] = "put_write"
    /\ StorageCall(p)
    /\ IF rid[p] \notin DOMAIN posts
       THEN /\ Finish(p, Response(500, "Failed to update post", <<>>))
            /\ UNCHANGED posts
       ELSE /\ posts' = [posts EXCEPT ![rid[p]] = UpdateData(@, body[p])]
            /\ Finish(p, Response(200, "", <<UpdateData(posts[rid[p]], body[p])>>))
    /\ UNCHANGED <<overlap, env, prisma, inits, route, rid, body, ran, nextId, now, deleted204>>

\* index.ts:169-175
FetchDelete(p) ==
    \E i \in IdParams, b \in (IF overlap THEN DeleteBodiesOverlap ELSE DeleteBodies) :
        /\ EnterApp(p, "DELETE /api/posts/:id", i, b)
        /\ IF ~Truthy(b, "currentUserId")
           THEN Finish(p, Response(401, "Authentication required", <<>>))
           ELSE Goto(p, "del_read")

\* index.ts:178-189
DeleteRead(p) ==
    /\ pc[p] = "del_read"
    /\ StorageCall(p)
    /\ IF rid[p] \notin DOMAIN posts
       THEN Finish(p, Response(404, "Post not found", <<>>))
       ELSE IF ~IsAuthor(posts[rid[p]], body[p])
            THEN Finish(p, Response(403, "Unauthorized: You are not the author of this post", <<>>))
            ELSE Goto(p, "del_write")
    /\ UNCHANGED <<overlap, env, prisma, inits, route, rid, body, ran, dbVars>>

\* index.ts:191-198
DeleteWrite(p) ==
    /\ pc[p] = "del_write"
    /\ StorageCall(p)
    /\ IF ~DeleteFinds(rid[p])
       THEN /\ Finish(p, Response(500, "Failed to delete post", <<>>))
            /\ UNCHANGED <<posts, deleted204>>
       ELSE /\ posts' = [k \in DOMAIN posts \ {rid[p]} |-> posts[k]]
            /\ deleted204' = [deleted204 EXCEPT ![rid[p]] = @ + 1]
            /\ Finish(p, Response(204, "", <<>>))
    /\ UNCHANGED <<overlap, env, prisma, inits, route, rid, body, ran, nextId, now>>

\* the response has been sent; the slot takes the next request
Complete(p) ==
    /\ pc[p] = "done"
    /\ pc' = [pc EXCEPT ![p] = "idle"]
    /\ route' = [route EXCEPT ![p] = "none"]
    /\ rid' = [rid EXCEPT ![p] = 0]
    /\ body' = [body EXCEPT ![p] = <<>>]
    /\ ran' = [ran EXCEPT ![p] = FALSE]
    /\ calls' = [calls EXCEPT ![p] = 0]
    /\ resp' = [resp EXCEPT ![p] = NoResponse]
    /\ UNCHANGED <<overlap, env, prisma, inits, dbVars>>

\* schema.prisma:18: now() of the database advances
Tick ==
    /\ now < MaxTime
    /\ now' = now + 1
    /\ UNCHANGED <<overlap, env, prisma, inits, posts, nextId, deleted204, reqVars>>

Init ==
    /\ overlap \in BOOLEAN
    /\ env \in EnvValues
    /\ prisma = Undefined
    /\ inits = 0
    /\ posts = <<>>
    /\ nextId = 1
    /\ now = 0
    /\ pc = [p \in Procs |-> "idle"]
    /\ route = [p \in Procs |-> "none"]
    /\ rid = [p \in Procs |-> 0]
    /\ body = [p \in Procs |-> <<>>]
    /\ ran = [p \in Procs |-> FALSE]
    /\ calls = [p \in Procs |-> 0]
    /\ resp = [p \in Procs |-> NoResponse]
    /\ deleted204 = [i \in PostIds |-> 0]

Next ==
    \/ \E p \in Procs : FetchMisconfigured(p)
    \/ \E p \in Procs : FetchHealth(p)
    \/ \E p \in Procs : FetchList(p)
    \/ \E p \in Procs : ListRead(p)
    \/ \E p \in Procs : FetchGet(p)
    \/ \E p \in Procs : GetRead(p)
    \/ \E p \in Procs : FetchPost(p)
    \/ \E p \in Procs : PostCreate(p)
    \/ \E p \in Procs : FetchPut(p)
    \/ \E p \in Procs : PutRead(p)
    \/ \E p \in Procs : PutWrite(p)
    \/ \E p \in Procs : FetchDelete(p)
    \/ \E p \in Procs : DeleteRead(p)
    \/ \E p \in Procs : DeleteWrite(p)
    \/ \E p \in Procs : Complete(p)
    \/ Tick

Spec == Init /\ [][Next]_vars

\* ---------------------------------------------------------------- claims
PUT == "PUT /api/posts/:id"
DELETE == "DELETE /api/posts/:id"
POST == "POST /api/posts"

\* the body field f is missing or falsy
Falsy(b, f) == f \notin DOMAIN b \/ b[f] = ""
Caller(p) == body[p]["currentUserId"]
\* in this step request p leaves the label l
Leaves(p, l) == pc[p] = l /\ pc'[p] # l

\* C1: a PUT whose currentUserId is present but is not the stored authorId of
\* an existing post is answered 403 at its ownership read, the table is left
\* as it was, and the request has issued that one read and no write.
C1_PutByNonAuthorIs403 ==
    /\ [][\A p \in Procs :
            (/\ Leaves(p, "put_read")
             /\ rid[p] \in DOMAIN posts
             /\ ~Falsy(body[p], "currentUserId")
             /\ Caller(p) # posts[rid[p]].authorId)
            => (/\ pc'[p] = "done"
                /\ resp'[p].status = 403
                /\ resp'[p].error = "Unauthorized: You are not the author of this post"
                /\ posts' = posts)]_vars
    /\ [](\A p \in Procs :
            (route[p] = PUT /\ resp[p].status = 403) => calls[p] = 1)

C1_Witness ==
    \E p \in Procs :
        /\ route[p] = PUT /\ pc[p] = "done" /\ resp[p].status = 403
        /\ rid[p] \in DOMAIN posts
        /\ Caller(p) \in Users /\ Caller(p) # posts[rid[p]].authorId
        /\ Has(body[p], "title") /\ body[p]["title"] # posts[rid[p]].title
        /\ Has(body[p], "published") /\ body[p]["published"] # posts[rid[p]].published

\* C2: a PUT or DELETE that reached its handler with a missing or falsy
\* currentUserId is answered 401 whatever the id, stored or not, and has
\* issued no storage call; it never stands at a storage call.
C2_MissingCallerIs401 ==
    \A p \in Procs :
        (ran[p] /\ route[p] \in {PUT, DELETE} /\ Falsy(body[p], "currentUserId"))
        => (/\ pc[p] = "done"
            /\ resp[p].status = 401
            /\ resp[p].error = "Authentication required"
            /\ calls[p] = 0)

C2_Witness ==
    /\ \E p \in Procs :
        /\ route[p] = DELETE /\ pc[p] = "done" /\ resp[p].status = 401
        /\ rid[p] \notin DOMAIN posts
        /\ Has(body[p], "currentUserId") /\ Caller(p) = ""
    /\ DOMAIN posts # {}

\* C3: once a DELETE has been answered 204 for an id, a DELETE with a present
\* currentUserId that looks the id up afterwards is answered 404, and no id
\* is ever answered 204 twice.
C3_DeletedIdIs404 ==
    /\ [][\A p \in Procs :
            (/\ Leaves(p, "del_read")
             /\ rid[p] \in PostIds
             /\ deleted204[rid[p]] >= 1)
            => (/\ pc'[p] = "done"
                /\ resp'[p].status = 404
                /\ resp'[p].error = "Post not found")]_vars
    /\ [](\A i \in PostIds : deleted204[i] <= 1)

C3_Witness ==
    \E p \in Procs :
        /\ route[p] = DELETE /\ pc[p] = "done" /\ resp[p].status = 404
        /\ rid[p] \in PostIds /\ deleted204[rid[p]] = 1
        /\ Caller(p) \in Users

\* C4: a POST answered 201 has stored, under the id it returns, a row whose
\* published is TRUE whatever the body carried, and a GET of a stored id
\* returns the stored row.
C4_CreateForcesPublished ==
    [][\A p \in Procs :
        /\ (Leaves(p, "post_create") /\ resp'[p].status = 201)
           => (/\ Len(resp'[p].rows) = 1
               /\ resp'[p].rows[1].id \in DOMAIN posts' \ DOMAIN posts
               /\ posts'[resp'[p].rows[1].id] = resp'[p].rows[1]
               /\ posts'[resp'[p].rows[1].id].published = TRUE)
        /\ (Leaves(p, "get_read") /\ rid[p] \in DOMAIN posts)
           => (/\ resp'[p].status = 200
               /\ resp'[p].rows = <<posts[rid[p]]>>)]_vars

C4_Witness ==
    \E p \in Procs :
        /\ route[p] = POST /\ pc[p] = "done" /\ resp[p].status = 201
        /\ Has(body[p], "published") /\ body[p]["published"] = FALSE
        /\ resp[p].rows[1].id \in DOMAIN posts
        /\ posts[resp[p].rows[1].id].published = TRUE

\* C5: a GET /api/posts answered 200 returns every stored row exactly once,
\* and for rows A before B, A.createdAt >= B.createdAt.
C5_ListIsCompleteAndOrdered ==
    [][\A p \in Procs :
        Leaves(p, "list_read")
        => (/\ resp'[p].status = 200
            /\ Len(resp'[p].rows) = Cardinality(DOMAIN posts)
            /\ {resp'[p].rows[k].id : k \in DOMAIN resp'[p].rows} = DOMAIN posts
            /\ \A k \in DOMAIN resp'[p].rows :
                 resp'[p].rows[k] = posts[resp'[p].rows[k].id]
            /\ \A j, k \in DOMAIN resp'[p].rows :
                 j < k => resp'[p].rows[j].createdAt >= resp'[p].rows[k].createdAt)]_vars

C5_Witness ==
    \E p \in Procs :
        /\ route[p] = "GET /api/posts" /\ pc[p] = "done"
        /\ Len(resp[p].rows) = 2
        /\ resp[p].rows[1].createdAt > resp[p].rows[2].createdAt
        /\ resp[p].rows[1].id > resp[p].rows[2].id
        /\ resp[p].rows[2].title = ""

\* C6: a POST that reached its handler with title, content or authorId
\* missing or falsy is answered 400 with the fixed error text, has issued no
\* storage call, and the step that answers it leaves the table as it was.
C6_CreateValidation ==
    /\ [](\A p \in Procs :
            (/\ ran[p] /\ route[p] = POST
             /\ (\/ Falsy(body[p], "title") \/ Falsy(body[p], "content")
                 \/ Falsy(body[p], "authorId")))
            => (/\ pc[p] = "done"
                /\ resp[p].status = 400
                /\ resp[p].error = "Title, content, and author ID are required"
                /\ calls[p] = 0))
    /\ [][\A p \in Procs :
            (pc[p] = "idle" /\ resp'[p].status = 400) => posts' = posts]_vars

C6_Witness ==
    \E p \in Procs :
        /\ route[p] = POST /\ pc[p] = "done" /\ resp[p].status = 400
        /\ ~Falsy(body[p], "title") /\ ~Falsy(body[p], "authorId")
        /\ Has(body[p], "content") /\ body[p]["content"] = ""

\* the connection string is absent, no string, or lacks the prisma:// prefix
Misconfigured ==
    \/ env.type # "string"
    \/ Len(env.val) < Len(PrismaScheme)
    \/ \E k \in 1 .. Len(PrismaScheme) : env.val[k] # PrismaScheme[k]

\* C7: with a connection string that is absent or lacks the scheme prefix,
\* every request, whatever its method and path, is answered 500 without
\* app.fetch being entered, and no handle is ever created.
C7_MisconfiguredIs500 ==
    Misconfigured =>
        /\ prisma = Undefined
        /\ inits = 0
        /\ \A p \in Procs :
             pc[p] # "idle" =>
                /\ pc[p] = "done"
                /\ resp[p].status = 500
                /\ ~ran[p]
                /\ calls[p] = 0

C7_Witness ==
    /\ env.type = "string" /\ env.val # <<>> /\ Misconfigured
    /\ \E p, q \in Procs :
        /\ route[p] = "GET /" /\ resp[p].status = 500
        /\ route[q] = PUT /\ resp[q].status = 500

\* C8: the handle is created at most once: a request entering app.fetch
\* leaves a handle in place, and a handle in place is never replaced.
C8_HandleCreatedOnce ==
    /\ [](inits <= 1 /\ prisma = inits)
    /\ [][/\ prisma # Undefined => prisma' = prisma
          /\ \A p \in Procs : (~ran[p] /\ ran'[p]) => prisma' # Undefined]_vars

C8_Witness ==
    /\ inits = 1
    /\ \A p \in Procs : pc[p] \notin {"idle", "done"}

\* C9: a stored row is changed or removed only by the write of a PUT or
\* DELETE whose currentUserId equals the row's authorId when the write is
\* applied, under every interleaving of the reads and writes.
C9_OnlyAuthorWrites ==
    [][\A i \in DOMAIN posts :
        (i \notin DOMAIN posts' \/ posts'[i] # posts[i])
        => \E p \in Procs :
            /\ pc[p] \in {"put_write", "del_write"} /\ pc'[p] = "done"
            /\ rid[p] = i
            /\ ~Falsy(body[p], "currentUserId")
            /\ Caller(p) = posts[i].authorId]_vars

C9_Witness ==
    \E p, q \in Procs :
        /\ p # q
        /\ route[p] = PUT /\ pc[p] = "done" /\ resp[p].status = 500
        /\ route[q] = PUT /\ pc[q] = "done" /\ resp[q].status = 403
        /\ rid[p] \in PostIds /\ deleted204[rid[p]] = 1
        /\ rid[q] \in DOMAIN posts

\* C10: while a row is stored its id, createdAt and authorId keep the values
\* of its creation, and the id of a deleted row is never stored again.
C10_ImmutableColumns ==
    [][/\ \A i \in DOMAIN posts \cap DOMAIN posts' :
            /\ posts'[i].id = i
            /\ posts'[i].createdAt = posts[i].createdAt
            /\ posts'[i].authorId = posts[i].authorId
       /\ \A i \in DOMAIN posts' \ DOMAIN posts :
            /\ posts'[i].id = i
            /\ deleted204[i] = 0
       /\ \A i \in PostIds : deleted204[i] >= 1 => i \notin DOMAIN posts']_vars

C10_Witness ==
    \E p \in Procs :
        /\ route[p] = PUT /\ pc[p] = "done" /\ resp[p].status = 200
        /\ Has(body[p], "title") /\ Has(body[p], "content") /\ Has(body[p], "published")
        /\ resp[p].rows[1].createdAt < now
        /\ \E i \in PostIds : deleted204[i] = 1

====
